---- MODULE Spec2Model ----
(***************************************************************************)
(* SLinker, a URL shortener: the persistence adapter (lib/db), the         *)
(* /api/shorten handlers (POST, GET, DELETE) and the two redirect          *)
(* resolvers (the RedirectPage server component and the GET route          *)
(* handler).  Requests run concurrently; every `await` of a persistence    *)
(* call is a point where another request may run.                          *)
(*                                                                         *)
(* Strings that the code inspects (URLs) are sequences of one-character    *)
(* strings, so that trim(), startsWith() and the URL parser are computed.  *)
(***************************************************************************)
EXTENDS Integers, Sequences, FiniteSets, TLC

VARIABLES
    backend,            \* "memory" | "postgres": isVercelPostgresAvailable()
    inMemoryUrls,       \* the in-memory list, newest first (unshift)
    nextId,             \* the in-memory id counter
    shortened_urls,     \* the rows of table shortened_urls, in insertion order
    serial,             \* the table's SERIAL sequence (last value handed out)
    clock,              \* the wall clock read by new Date() / CURRENT_TIMESTAMP
    pending,            \* UPDATE statements dispatched by RedirectPage, not yet run
    sqlFaults,          \* whether SQL statements can throw in this behaviour
    reqs                \* the requests: inputs, position, locals, response

vars == <<backend, inMemoryUrls, nextId, shortened_urls, serial, clock, pending, sqlFaults, reqs>>

----------------------------------------------------------------------------
(* Bounds of the model *)

\* requests handled in one behaviour (each slot serves one request)
MaxReq == 2
\* creations served before the behaviour starts: 0..MaxEarlier
MaxEarlier == 2
\* candidate codes nanoid(8) can return: 1..NumCodes
NumCodes == 2

(* Program constants *)

\* const maxAttempts = 10
maxAttempts == 10
\* getAllShortenedUrls(userEmail, 50)
ListLimit == 50

Codes == 1..NumCodes
NoCode == 0
NoUser == "none"
Users == {"a", "b"}
Sessions == Users \cup {NoUser}
\* the request slots of the behaviour
Slots == DOMAIN reqs

----------------------------------------------------------------------------
(* Strings *)

HTTP == <<"h","t","t","p",":","/","/">>
HTTPS == <<"h","t","t","p","s",":","/","/">>
MARKER == <<"?","f","r","o","m","=","s","l","i","n","k","e","r">>
HOME == <<"/">>
HOMEERR == <<"/","?","e","r","r","o","r">>

Alpha == {"h","t","p","s","e","c","f"}
Digit == {"8"}

\* String.prototype.startsWith
StartsWith(s, p) == Len(s) >= Len(p) /\ SubSeq(s, 1, Len(p)) = p

RECURSIVE TrimStart(_)
TrimStart(s) == IF s # <<>> /\ Head(s) = " " THEN TrimStart(Tail(s)) ELSE s

RECURSIVE TrimEnd(_)
TrimEnd(s) ==
    IF s # <<>> /\ s[Len(s)] = " " THEN TrimEnd(SubSeq(s, 1, Len(s) - 1)) ELSE s

\* String.prototype.trim
Trim(s) == TrimEnd(TrimStart(s))

\* index of the first occurrence of character ch in s at or after i, 0 if none
RECURSIVE IndexFrom(_, _, _)
IndexFrom(s, ch, i) ==
    IF i > Len(s) THEN 0 ELSE IF s[i] = ch THEN i ELSE IndexFrom(s, ch, i + 1)

\* number of leading "/" of s
RECURSIVE Slashes(_)
Slashes(s) == IF s # <<>> /\ Head(s) = "/" THEN 1 + Slashes(Tail(s)) ELSE 0

\* index of the first character of s at or after i that is in set, 0 if none
RECURSIVE IndexIn(_, _, _)
IndexIn(s, set, i) ==
    IF i > Len(s) THEN 0 ELSE IF s[i] \in set THEN i ELSE IndexIn(s, set, i + 1)

\* s split at every "."
RECURSIVE SplitDots(_)
SplitDots(s) ==
    LET dot == IndexFrom(s, ".", 1)
    IN  IF dot = 0 THEN <<s>>
        ELSE <<SubSeq(s, 1, dot - 1)>> \o SplitDots(SubSeq(s, dot + 1, Len(s)))

\* a non-empty string of ASCII digits
AllDigits(s) == s # <<>> /\ \A i \in 1..Len(s) : s[i] \in Digit

\* the value of a decimal digit
DigitVal(ch) ==
    CHOOSE n \in 0..9 : <<"0","1","2","3","4","5","6","7","8","9">>[n + 1] = ch

\* s <= b for digit strings of one length
RECURSIVE LexLE(_, _)
LexLE(s, b) ==
    IF s = <<>> THEN TRUE
    ELSE IF DigitVal(Head(s)) < DigitVal(Head(b)) THEN TRUE
    ELSE IF DigitVal(Head(s)) > DigitVal(Head(b)) THEN FALSE
    ELSE LexLE(Tail(s), Tail(b))

\* s <= b for decimal numerals without leading zeros
DecLE(s, b) == Len(s) < Len(b) \/ (Len(s) = Len(b) /\ LexLE(s, b))

\* 255, and 256^k - 1 for k = 4, 3, 2, 1: the largest last number of an IPv4
\* address of 1, 2, 3, 4 parts
MaxByte == <<"2","5","5">>
MaxLast ==
    << <<"4","2","9","4","9","6","7","2","9","5">>,
       <<"1","6","7","7","7","2","1","5">>,
       <<"6","5","5","3","5">>,
       MaxByte >>

\* the parts of a host without one trailing empty part
HostParts(host) ==
    LET parts == SplitDots(host)
    IN  IF Len(parts) > 1 /\ parts[Len(parts)] = <<>>
        THEN SubSeq(parts, 1, Len(parts) - 1)
        ELSE parts

\* the "ends in a number" checker of the host parser
EndsInANumber(host) == AllDigits(HostParts(host)[Len(HostParts(host))])

\* the IPv4 parser: at most four parts, each a number, and the numbers in range
IPv4Ok(host) ==
    LET parts == HostParts(host)
        n == Len(parts)
    IN  /\ n <= 4
        /\ \A i \in 1..n : AllDigits(parts[i])
        /\ \A i \in 1..(n - 1) : DecLE(parts[i], MaxByte)
        /\ DecLE(parts[n], MaxLast[n])

\* the host parser: a forbidden host code point (here: a space) fails; the
\* host of a special scheme that ends in a number must be an IPv4 address
HostOk(host, special) ==
    /\ \A i \in 1..Len(host) : host[i] # " "
    /\ (special /\ host # <<>> /\ EndsInANumber(host)) => IPv4Ok(host)

\* the schemes the URL standard calls special
SpecialSchemes ==
    { <<"h","t","t","p">>, <<"h","t","t","p","s">>, <<"f","t","p">>,
      <<"w","s">>, <<"w","s","s">>, <<"f","i","l","e">> }

\* 2^16 - 1, the largest port
MaxPort == <<"6","5","5","3","5">>

\* the authority of a URL: credentials are not modelled; the host must not be
\* empty before a ":", nor at all in a special scheme; the port is all digits
\* and at most 65535
AuthorityOk(auth, special) ==
    LET pcol == IndexFrom(auth, ":", 1)
        host == IF pcol = 0 THEN auth ELSE SubSeq(auth, 1, pcol - 1)
        port == IF pcol = 0 THEN <<>> ELSE SubSeq(auth, pcol + 1, Len(auth))
    IN  /\ (pcol # 0 \/ special) => host # <<>>
        /\ HostOk(host, special)
        /\ port # <<>> => (AllDigits(port) /\ DecLE(port, MaxPort))

\* new URL(url) without a base: does the WHATWG parser accept it?  (For
\* strings of the letters of Alpha, the digit 8 and the characters
\* : / . ? # + - and space.)  Leading and trailing spaces are stripped; a
\* scheme (a letter, then letters, digits, + - .) and ":" must come first.
\* After a special scheme all slashes are skipped and an authority follows;
\* after another scheme an authority follows only "//", and anything else is
\* a path.  The authority ends at the first "/", "?" or "#".
IsValidUrl(url) ==
    LET s == Trim(url)
        colon == IndexFrom(s, ":", 1)
    IN  /\ colon > 1
        /\ s[1] \in Alpha
        /\ \A i \in 2..(colon - 1) : s[i] \in Alpha \cup Digit \cup {"+", "-", "."}
        /\ LET special == SubSeq(s, 1, colon - 1) \in SpecialSchemes
               rest0 == SubSeq(s, colon + 1, Len(s))
               skip == IF special THEN Slashes(rest0) ELSE 2
               rest == SubSeq(rest0, skip + 1, Len(rest0))
               stop == IndexIn(rest, {"/", "?", "#"}, 1)
               auth == IF stop = 0 THEN rest ELSE SubSeq(rest, 1, stop - 1)
           IN  (special \/ Slashes(rest0) >= 2) => AuthorityOk(auth, special)

\* normalizeUrl
normalizeUrl(url) ==
    LET trimmed == Trim(url)
    IN  IF StartsWith(trimmed, HTTP) \/ StartsWith(trimmed, HTTPS)
        THEN trimmed
        ELSE HTTPS \o trimmed

\* The request bodies' url values
U_empty == <<>>
U_abs == <<"h","t","t","p","s",":","/","/","e">>
U_space == <<" ","h","t","t","p",":","/","/","e">>
U_port == <<"e",":","8">>
U_bare == <<"e",".","c","/","p">>
UrlInputs == {U_empty, U_abs, U_space, U_port, U_bare}

----------------------------------------------------------------------------
(* The persistence adapter (lib/db) *)

\* interface ShortenedUrl, as the in-memory branch of createShortenedUrl builds it
NewUrl(id, originalUrl, shortCode, now) ==
    [id |-> id,
     original_url |-> normalizeUrl(originalUrl),
     short_code |-> shortCode,
     created_at |-> now,
     clicks |-> 0]

\* inMemoryUrls.unshift(newUrl)
Unshift(rows, rec) == <<rec>> \o rows

\* shortCodeExists: inMemoryUrls.some(...) / SELECT 1 ... WHERE short_code = $1
shortCodeExists(rows, shortCode) ==
    \E i \in 1..Len(rows) : rows[i].short_code = shortCode

\* index of the first row with that short code, 0 if none
RECURSIVE FindIndex(_, _, _)
FindIndex(rows, shortCode, i) ==
    IF i > Len(rows) THEN 0
    ELSE IF rows[i].short_code = shortCode THEN i
    ELSE FindIndex(rows, shortCode, i + 1)

\* getShortenedUrl: inMemoryUrls.find(...) / SELECT * ... LIMIT 1.
\* The result is <<>> (undefined) or <<record>>.
getShortenedUrl(rows, shortCode) ==
    LET i == FindIndex(rows, shortCode, 1)
    IN  IF i = 0 THEN <<>> ELSE <<rows[i]>>

\* the record of rows that has this id: the object a reference to a stored
\* record leads to
RecordOf(rows, id) == rows[CHOOSE i \in 1..Len(rows) : rows[i].id = id]

\* incrementClicks in memory, with clicks-- for clicks++
incrementClicks_Decrement(rows, shortCode) ==
    LET i == FindIndex(rows, shortCode, 1)
    IN  IF i = 0 THEN rows
        ELSE [rows EXCEPT ![i] = [@ EXCEPT !.clicks = @ - 1]]

\* incrementClicks, in memory: the first record found gets clicks++
incrementClicks(rows, shortCode) ==
    LET i == FindIndex(rows, shortCode, 1)
    IN  IF i = 0 THEN rows
        ELSE [rows EXCEPT ![i] = [@ EXCEPT !.clicks = @ + 1]]

\* the UPDATE of incrementClicks without its WHERE clause
updateClicks_NoWhere(rows, shortCode) ==
    [i \in 1..Len(rows) |-> [rows[i] EXCEPT !.clicks = @ + 1]]

\* incrementClicks, in the table: UPDATE ... SET clicks = clicks + 1 WHERE short_code = $1
updateClicks(rows, shortCode) ==
    [i \in 1..Len(rows) |->
        IF rows[i].short_code = shortCode
        THEN [rows[i] EXCEPT !.clicks = @ + 1]
        ELSE rows[i]]

\* a JavaScript value handed to a function: a number or a string
JsNumber(n) == [type |-> "number", value |-> n]
JsString(str) == [type |-> "string", value |-> str]

\* Array.prototype.slice(0, end) / LIMIT for a number
Slice(rows, limit) == SubSeq(rows, 1, IF Len(rows) < limit THEN Len(rows) ELSE limit)

\* ToIntegerOrInfinity of slice's end argument: a string that is not a
\* numeral (an e-mail address) converts to NaN, and NaN to 0
SliceEnd(v) == IF v.type = "number" THEN v.value ELSE 0

\* ORDER BY created_at DESC: every order of the rows in which created_at never
\* increases; among rows of equal created_at SQL fixes no order, the database
\* may return them in any
OrderByCreatedAtDesc(rows) ==
    LET n == Len(rows)
        orders == {p \in [1..n -> 1..n] : \A i, j \in 1..n : i # j => p[i] # p[j]}
    IN  {[i \in 1..n |-> rows[p[i]]] : p \in
            {q \in orders :
                \A i \in 1..(n - 1) : rows[q[i]].created_at >= rows[q[i + 1]].created_at}}

\* getAllShortenedUrls(limit), in memory: inMemoryUrls.slice(0, limit)
getAllShortenedUrls(rows, limit) == Slice(rows, SliceEnd(limit))

\* the SELECT of getAllShortenedUrls runs only with a number for LIMIT $1:
\* a string that is not a numeral is rejected by the database
LimitAccepted(limit) == limit.type = "number"

\* getAllShortenedUrls(limit), in the table: ORDER BY created_at DESC LIMIT $1;
\* when the statement throws, the catch block answers []
\* `ordered` is the order in which the database returns the rows
selectAllShortenedUrls(ordered, limit, sqlOk) ==
    IF sqlOk /\ LimitAccepted(limit)
    THEN Slice(ordered, limit.value)
    ELSE <<>>

\* the store the configured backend reads and writes
Rows == IF backend = "memory" THEN inMemoryUrls ELSE shortened_urls

\* the outcomes of one SQL statement: it runs (TRUE) or throws (FALSE);
\* the in-memory branches cannot throw
SqlOutcomes == IF backend = "postgres" /\ sqlFaults THEN {TRUE, FALSE} ELSE {TRUE}

----------------------------------------------------------------------------
(* Requests and responses *)

\* a request slot nobody has used yet; sqlFailed records whether a persistence
\* call made for the request has thrown
Idle ==
    [kind |-> "none", pc |-> "idle", userEmail |-> NoUser, url |-> <<>>,
     shortCode |-> NoCode, isUnique |-> FALSE, attempts |-> 0, urlData |-> <<>>,
     status |-> 0, error |-> "", data |-> <<>>, location |-> <<>>,
     sqlFailed |-> FALSE]

\* the request with its response: NextResponse.json(...) / a redirect; the
\* handler has returned, its loop locals are gone (the inputs are kept)
Respond(req, status, error, data, location) ==
    [req EXCEPT !.pc = "done", !.status = status, !.error = error,
                !.data = data, !.location = location,
                !.attempts = 0, !.isUnique = FALSE,
                !.shortCode = IF req.kind = "POST" THEN NoCode ELSE @]

\* requests arrive one after another and are then handled concurrently
CanStart(r) == reqs[r].pc = "idle" /\ (IF r = 1 THEN TRUE ELSE reqs[r - 1].pc # "idle")

StoreUnchanged == UNCHANGED <<inMemoryUrls, nextId, shortened_urls, serial, clock>>

----------------------------------------------------------------------------
(* POST /api/shorten *)

\* one turn of the do-while body: isUnique = !(await shortCodeExists(shortCode));
\* shortCodeExists answers false when its SELECT throws
Probe(rows, shortCode, sqlOk) == IF sqlOk THEN ~shortCodeExists(rows, shortCode) ELSE TRUE

\* while (!isUnique && attempts < maxAttempts), with the bound off by one
LoopContinues_OneMore(isUnique, attempts) == ~isUnique /\ attempts <= maxAttempts

\* while (!isUnique && attempts < maxAttempts)
LoopContinues(isUnique, attempts) == ~isUnique /\ attempts < maxAttempts

\* the checks after the loop, without the isUnique check
AfterLoop_NoExhaustedCheck(isUnique, userEmail) ==
    IF userEmail = NoUser THEN "unauthenticated" ELSE "insert"

\* the checks after the loop: if (!isUnique) 500; if (!userEmail) 401; else insert
AfterLoop(isUnique, userEmail) ==
    IF ~isUnique THEN "exhausted"
    ELSE IF userEmail = NoUser THEN "unauthenticated"
    ELSE "insert"

\* if (!url) 400; try { new URL(url) } catch { 400 }
UrlVerdict(url) ==
    IF url = <<>> THEN "missing"
    ELSE IF ~IsValidUrl(url) THEN "invalid"
    ELSE "ok"

\* the request arrives; session, body and URL checks; the first turn of the loop
POSTStart(r) ==
    /\ CanStart(r)
    /\ \E userEmail \in Sessions, url \in UrlInputs :
         LET req == [Idle EXCEPT !.kind = "POST", !.userEmail = userEmail, !.url = url]
         IN  CASE UrlVerdict(url) = "missing" ->
                    reqs' = [reqs EXCEPT ![r] =
                        Respond(req, 400, "URL is required", <<>>, <<>>)]
               [] UrlVerdict(url) = "invalid" ->
                    reqs' = [reqs EXCEPT ![r] =
                        Respond(req, 400, "Invalid URL format", <<>>, <<>>)]
               [] OTHER ->
                    \E c \in Codes, sqlOk \in SqlOutcomes :
                        reqs' = [reqs EXCEPT ![r] =
                            [req EXCEPT !.pc = "loop", !.shortCode = c,
                                        !.isUnique = Probe(Rows, c, sqlOk),
                                        !.attempts = 1,
                                        !.sqlFailed = ~sqlOk]]
    /\ StoreUnchanged
    /\ UNCHANGED <<backend, sqlFaults, pending>>

\* another turn of the loop: a new candidate and its probe
POSTLoop(r) ==
    /\ reqs[r].kind = "POST" /\ reqs[r].pc = "loop"
    /\ LoopContinues(reqs[r].isUnique, reqs[r].attempts)
    /\ \E c \in Codes, sqlOk \in SqlOutcomes :
         reqs' = [reqs EXCEPT ![r] =
             [@ EXCEPT !.shortCode = c,
                       !.isUnique = Probe(Rows, c, sqlOk),
                       !.attempts = @ + 1,
                       !.sqlFailed = @ \/ ~sqlOk]]
    /\ StoreUnchanged
    /\ UNCHANGED <<backend, sqlFaults, pending>>

\* the response body of a created record: id, originalUrl, shortCode,
\* createdAt and clicks are read from `data` when the response is built
Created(req, rec) == Respond(req, 200, "", <<rec>>, <<>>)

\* createShortenedUrl(url, shortCode, userEmail) in memory: the function takes
\* (originalUrl, shortCode), the third argument is dropped; no check, unshift,
\* nextId++; the record object in the store is what the function returns
CreateInMemory(r, now) ==
    LET req == reqs[r]
        rec == NewUrl(nextId, req.url, req.shortCode, now)
    IN  /\ inMemoryUrls' = Unshift(inMemoryUrls, rec)
        /\ nextId' = nextId + 1
        /\ clock' = now
        /\ reqs' = [reqs EXCEPT ![r] = [req EXCEPT !.pc = "created", !.urlData = <<rec>>]]
        /\ UNCHANGED <<shortened_urls, serial>>

\* createShortenedUrl in the table: INSERT ... RETURNING *; the statement throws
\* when the connection fails or the UNIQUE constraint on short_code is violated
\* (the sequence value it took is then lost); the handler is still waiting
\* for the reply
CreateInTable(r, now, sqlOk) ==
    LET req == reqs[r]
        rec == NewUrl(serial + 1, req.url, req.shortCode, now)
        failed == [req EXCEPT !.pc = "created", !.sqlFailed = TRUE]
    IN  /\ UNCHANGED <<inMemoryUrls, nextId>>
        /\ IF ~sqlOk
           THEN /\ reqs' = [reqs EXCEPT ![r] = failed]
                /\ UNCHANGED <<shortened_urls, serial, clock>>
           ELSE IF shortCodeExists(shortened_urls, req.shortCode)
           THEN /\ reqs' = [reqs EXCEPT ![r] = failed]
                /\ serial' = serial + 1
                /\ UNCHANGED <<shortened_urls, clock>>
           ELSE /\ shortened_urls' = Append(shortened_urls, rec)
                /\ serial' = serial + 1
                /\ clock' = now
                /\ reqs' = [reqs EXCEPT ![r] =
                       [req EXCEPT !.pc = "created", !.urlData = <<rec>>]]

\* the loop is left with a unique candidate and an identity: the record is
\* inserted; the handler waits at `await createShortenedUrl(...)`
POSTInsert(r) ==
    /\ reqs[r].kind = "POST" /\ reqs[r].pc = "loop"
    /\ ~LoopContinues(reqs[r].isUnique, reqs[r].attempts)
    /\ AfterLoop(reqs[r].isUnique, reqs[r].userEmail) = "insert"
    /\ \E now \in {clock, clock + 1}, sqlOk \in SqlOutcomes :
         IF backend = "memory"
         THEN CreateInMemory(r, now)
         ELSE CreateInTable(r, now, sqlOk)
    /\ UNCHANGED <<backend, sqlFaults, pending>>

\* `data` as the handler reads it when it builds the response: in memory the
\* record object that is in the store, from the table the row INSERT returned
CreatedData(req) ==
    IF backend = "memory" THEN RecordOf(inMemoryUrls, req.urlData[1].id)
    ELSE req.urlData[1]

\* the handler answers: after the loop when the checks after it fail, after
\* the insert with the record, or with 500 when the insert threw
POSTFinish(r) ==
    /\ reqs[r].kind = "POST"
    /\ LET req == reqs[r]
           verdict == AfterLoop(req.isUnique, req.userEmail)
       IN  \/ /\ req.pc = "loop"
              /\ ~LoopContinues(req.isUnique, req.attempts)
              /\ verdict = "exhausted"
              /\ reqs' = [reqs EXCEPT ![r] =
                    Respond(req, 500, "Failed to generate unique short code", <<>>, <<>>)]
           \/ /\ req.pc = "loop"
              /\ ~LoopContinues(req.isUnique, req.attempts)
              /\ verdict = "unauthenticated"
              /\ reqs' = [reqs EXCEPT ![r] =
                    Respond(req, 401, "userEmail is required", <<>>, <<>>)]
           \/ /\ req.pc = "created"
              /\ reqs' = [reqs EXCEPT ![r] =
                    IF req.urlData = <<>>
                    THEN Respond(req, 500, "Internal server error", <<>>, <<>>)
                    ELSE Created(req, CreatedData(req))]
    /\ StoreUnchanged
    /\ UNCHANGED <<backend, sqlFaults, pending>>

----------------------------------------------------------------------------
(* GET /api/shorten *)

\* the whole handler: session check, checkDatabaseConnection, the listing.
\* The route calls getAllShortenedUrls(userEmail, 50); the function takes
\* (limit), so the e-mail address is its limit and the 50 is dropped.
ListGET(r) ==
    /\ CanStart(r)
    /\ \E userEmail \in Sessions, connOk \in SqlOutcomes, sqlOk \in SqlOutcomes,
          ordered \in OrderByCreatedAtDesc(shortened_urls) :
         LET limit == JsString(userEmail)
             threw == backend = "postgres"
                        /\ (~connOk \/ ~sqlOk \/ ~LimitAccepted(limit))
             req == [Idle EXCEPT !.kind = "LIST", !.userEmail = userEmail,
                                 !.sqlFailed = userEmail # NoUser /\ threw]
             found == IF backend = "memory"
                      THEN getAllShortenedUrls(inMemoryUrls, limit)
                      ELSE selectAllShortenedUrls(ordered, limit, sqlOk)
         IN  reqs' = [reqs EXCEPT ![r] =
                 IF userEmail = NoUser
                 THEN Respond(req, 401, "userEmail is required", <<>>, <<>>)
                 ELSE IF ~connOk
                 THEN Respond(req, 500, "Database connection failed", <<>>, <<>>)
                 ELSE Respond(req, 200, "", found, <<>>)]
    /\ StoreUnchanged
    /\ UNCHANGED <<backend, sqlFaults, pending>>

----------------------------------------------------------------------------
(* DELETE /api/shorten *)

\* the whole handler: session check, body check, then the call of
\* deleteShortenedUrlByUser, which the db module does not export: the call
\* throws a TypeError, and the catch block answers 500
DELETE(r) ==
    /\ CanStart(r)
    /\ \E userEmail \in Sessions, shortCode \in Codes \cup {NoCode} :
         LET req == [Idle EXCEPT !.kind = "DELETE", !.userEmail = userEmail,
                                 !.shortCode = shortCode]
         IN  reqs' = [reqs EXCEPT ![r] =
                 IF userEmail = NoUser
                 THEN Respond(req, 401, "userEmail is required", <<>>, <<>>)
                 ELSE IF shortCode = NoCode
                 THEN Respond(req, 400, "shortCode is required", <<>>, <<>>)
                 ELSE Respond(req, 500, "Internal server error", <<>>, <<>>)]
    /\ StoreUnchanged
    /\ UNCHANGED <<backend, sqlFaults, pending>>

----------------------------------------------------------------------------
(* GET /{shortCode}: the RedirectPage server component *)

\* next/navigation redirect(url): it throws; the error carries the target
redirect(url) == [message |-> "NEXT_REDIRECT", digest |-> url]

\* an error thrown by a persistence call
SqlError == [message |-> "sql", digest |-> <<>>]

\* if (!targetUrl.startsWith("http://") && !targetUrl.startsWith("https://")) prepend
EnsureProtocol(url) ==
    IF ~StartsWith(url, HTTP) /\ ~StartsWith(url, HTTPS) THEN HTTPS \o url ELSE url

\* the catch block: a NEXT_REDIRECT error with a digest is answered by
\* redirect(targetUrl), anything else by redirect("/?error"); what the catch
\* block throws leaves the component
PageCatch(error, targetUrl) ==
    IF error.message = "NEXT_REDIRECT" /\ error.digest # <<>>
    THEN redirect(targetUrl)
    ELSE redirect(HOMEERR)

\* the response Next.js makes of the redirect error that left the component
\* (redirect() in a server component: 307 Temporary Redirect)
PageResponse(req, thrown) == Respond(req, 307, "", <<>>, thrown.digest)

\* the lookup; an unknown code and a failed lookup end the request here
PageLookup(r) ==
    /\ CanStart(r)
    /\ \E shortCode \in Codes, sqlOk \in SqlOutcomes :
         LET req == [Idle EXCEPT !.kind = "PAGE", !.shortCode = shortCode]
             urlData == getShortenedUrl(Rows, shortCode)
         IN  reqs' = [reqs EXCEPT ![r] =
                 IF ~sqlOk THEN PageResponse([req EXCEPT !.sqlFailed = TRUE],
                                             PageCatch(SqlError, HOME))
                 ELSE IF urlData = <<>>
                 THEN PageResponse(req, PageCatch(redirect(HOME), HOME))
                 ELSE [req EXCEPT !.pc = "found", !.urlData = urlData]]
    /\ StoreUnchanged
    /\ UNCHANGED <<backend, sqlFaults, pending>>

\* incrementClicks(shortCode) is called and not awaited: in memory it has run
\* when the call returns, against the table its UPDATE is on its way; then the
\* redirect
PageFinish(r) ==
    /\ reqs[r].kind = "PAGE" /\ reqs[r].pc = "found"
    /\ LET req == reqs[r]
           targetUrl == EnsureProtocol(req.urlData[1].original_url)
       IN  reqs' = [reqs EXCEPT ![r] =
               PageResponse(req, PageCatch(redirect(targetUrl \o MARKER), targetUrl))]
    /\ IF backend = "memory"
       THEN /\ inMemoryUrls' = incrementClicks(inMemoryUrls, reqs[r].shortCode)
            /\ UNCHANGED pending
       ELSE /\ pending' = [pending EXCEPT ![reqs[r].shortCode] = @ + 1]
            /\ UNCHANGED inMemoryUrls
    /\ UNCHANGED <<backend, sqlFaults, nextId, shortened_urls, serial, clock>>

\* a dispatched UPDATE runs, or throws (incrementClicks logs it, nothing more)
IncrementExec ==
    /\ \E shortCode \in Codes, sqlOk \in SqlOutcomes :
         /\ pending[shortCode] > 0
         /\ pending' = [pending EXCEPT ![shortCode] = @ - 1]
         /\ shortened_urls' = IF sqlOk THEN updateClicks(shortened_urls, shortCode)
                              ELSE shortened_urls
    /\ UNCHANGED <<backend, sqlFaults, inMemoryUrls, nextId, serial, clock, reqs>>

----------------------------------------------------------------------------
(* GET /{shortCode}: the route handler *)

\* the lookup; an unknown code is 404, a failed lookup 500
RouteLookup(r) ==
    /\ CanStart(r)
    /\ \E shortCode \in Codes, sqlOk \in SqlOutcomes :
         LET req == [Idle EXCEPT !.kind = "ROUTE", !.shortCode = shortCode]
             urlData == getShortenedUrl(Rows, shortCode)
         IN  reqs' = [reqs EXCEPT ![r] =
                 IF ~sqlOk THEN Respond([req EXCEPT !.sqlFailed = TRUE],
                                        500, "Internal server error", <<>>, <<>>)
                 ELSE IF urlData = <<>>
                 THEN Respond(req, 404, "Short URL not found", <<>>, <<>>)
                 ELSE [req EXCEPT !.pc = "found", !.urlData = urlData]]
    /\ StoreUnchanged
    /\ UNCHANGED <<backend, sqlFaults, pending>>

\* the awaited incrementClicks(shortCode): in memory clicks++ of the first
\* record of the code; against the table its UPDATE runs, or throws, and
\* incrementClicks catches and logs the error and returns. The handler waits
\* at `await incrementClicks(shortCode)`
RouteUpdate(r) ==
    /\ reqs[r].kind = "ROUTE" /\ reqs[r].pc = "found"
    /\ \E sqlOk \in SqlOutcomes :
         /\ reqs' = [reqs EXCEPT ![r] = [@ EXCEPT !.pc = "resumed", !.sqlFailed = ~sqlOk]]
         /\ IF backend = "memory"
            THEN /\ inMemoryUrls' = incrementClicks(inMemoryUrls, reqs[r].shortCode)
                 /\ UNCHANGED shortened_urls
            ELSE /\ shortened_urls' = IF sqlOk
                                      THEN updateClicks(shortened_urls, reqs[r].shortCode)
                                      ELSE shortened_urls
                 /\ UNCHANGED inMemoryUrls
    /\ UNCHANGED <<backend, sqlFaults, nextId, serial, clock, pending>>

\* the response after the awaited increment, whatever became of it:
\* NextResponse.redirect(urlData.original_url, { status: 302 })
RouteResponse(req) == Respond(req, 302, "", <<>>, req.urlData[1].original_url)

\* the handler goes on after `await incrementClicks(shortCode)`: the redirect
RouteFinish(r) ==
    /\ reqs[r].kind = "ROUTE" /\ reqs[r].pc = "resumed"
    /\ reqs' = [reqs EXCEPT ![r] = RouteResponse(reqs[r])]
    /\ StoreUnchanged
    /\ UNCHANGED <<backend, sqlFaults, pending>>

----------------------------------------------------------------------------
(* The system *)

\* the records of n earlier creations, the oldest first, as codes 1, 2, ...:
\* every period-th of e:8, the others of https://e; `step` creations fell into
\* each reading of the clock
Earlier(n, step, period) ==
    [i \in 1..n |->
        NewUrl(i, IF i % period = 0 THEN U_port ELSE U_abs, i, (i - 1) \div step)]

\* a sequence, reversed
RECURSIVE Reverse(_)
Reverse(s) == IF s = <<>> THEN <<>> ELSE Reverse(Tail(s)) \o <<Head(s)>>

\* the state after the creations of `earlier` (oldest first) and no other write
Started(earlier) ==
    /\ backend \in {"memory", "postgres"}
    /\ inMemoryUrls = (IF backend = "memory" THEN Reverse(earlier) ELSE <<>>)
    /\ nextId = (IF backend = "memory" THEN Len(earlier) + 1 ELSE 1)
    /\ shortened_urls = (IF backend = "postgres" THEN earlier ELSE <<>>)
    /\ serial = (IF backend = "postgres" THEN Len(earlier) ELSE 0)
    /\ clock = (IF earlier = <<>> THEN 0 ELSE earlier[Len(earlier)].created_at)
    /\ pending = [c \in Codes |-> 0]
    /\ reqs = [r \in 1..MaxReq |-> Idle]

\* the process has started and has served MaxEarlier or fewer creations;
\* the database, if any, answers every statement
Init ==
    /\ \E n \in 0..MaxEarlier : Started(Earlier(n, 1, 2))
    /\ sqlFaults = FALSE

Next ==
    \/ \E r \in Slots : POSTStart(r)
    \/ \E r \in Slots : POSTLoop(r)
    \/ \E r \in Slots : POSTInsert(r)
    \/ \E r \in Slots : POSTFinish(r)
    \/ \E r \in Slots : ListGET(r)
    \/ \E r \in Slots : DELETE(r)
    \/ \E r \in Slots : PageLookup(r)
    \/ \E r \in Slots : PageFinish(r)
    \/ \E r \in Slots : RouteLookup(r)
    \/ \E r \in Slots : RouteUpdate(r)
    \/ \E r \in Slots : RouteFinish(r)
    \/ IncrementExec

Spec == Init /\ [][Next]_vars

\* the event loop runs the continuation of every await that has settled: a
\* POST that can take its next turn of the loop, insert or answer does so
SpecLive ==
    /\ Spec
    /\ \A r \in 1..MaxReq :
         WF_vars(POSTLoop(r)) /\ WF_vars(POSTInsert(r)) /\ WF_vars(POSTFinish(r))

\* the database may fail: every SQL statement either runs or throws
InitFault ==
    /\ \E n \in 0..MaxEarlier : Started(Earlier(n, 1, 2))
    /\ sqlFaults = TRUE

SpecFault == InitFault /\ [][Next]_vars

\* a POST of url by userEmail that has drawn candidate c and probed it against
\* the store `rows`, and has not gone on yet
Probing(userEmail, url, c, rows) ==
    [Idle EXCEPT !.kind = "POST", !.pc = "loop", !.userEmail = userEmail, !.url = url,
                 !.shortCode = c, !.isUnique = Probe(rows, c, TRUE), !.attempts = 1]

\* the process has started with an empty store, and two POSTs, of users "a"
\* and "b", have each drawn the same candidate and probed it; the slots hold
\* one request more than MaxReq; the database, if any, answers every statement
InitRace ==
    /\ backend \in {"memory", "postgres"}
    /\ inMemoryUrls = <<>> /\ nextId = 1
    /\ shortened_urls = <<>> /\ serial = 0
    /\ clock = 0
    /\ pending = [c \in Codes |-> 0]
    /\ sqlFaults = FALSE
    /\ reqs = [r \in 1..(MaxReq + 1) |->
                 IF r = 1 THEN Probing("a", U_abs, 1, <<>>)
                 ELSE IF r = 2 THEN Probing("b", U_port, 1, <<>>)
                 ELSE Idle]

SpecRace == InitRace /\ [][Next]_vars

----------------------------------------------------------------------------
(* Properties *)

Done(r) == reqs[r].pc = "done"

\* request r is a POST that answered 200 with the created record
Shortened(r) == Done(r) /\ reqs[r].kind = "POST" /\ reqs[r].status = 200

\* a record with this id is in the store
Stored(rows, id) == \E i \in 1..Len(rows) : rows[i].id = id

\* C1: after any sequence of create requests, concurrent ones whose probe and
\* insert interleave included, no two stored records share a shortCode.
C1_UniqueShortCodes ==
    \A i, j \in 1..Len(Rows) : i # j => Rows[i].short_code # Rows[j].short_code

\* what does hold: the table's UNIQUE constraint keeps the codes of the durable
\* backend distinct
C1_UniqueInTable ==
    \A i, j \in 1..Len(shortened_urls) :
        i # j => shortened_urls[i].short_code # shortened_urls[j].short_code

\* the record was created for user userEmail: a POST of that user inserted
\* it (the store itself keeps no owner)
CreatedFor(rec, userEmail) ==
    \E q \in Slots :
        /\ reqs[q].kind = "POST" /\ reqs[q].userEmail = userEmail
        /\ reqs[q].urlData # <<>> /\ reqs[q].urlData[1].id = rec.id

\* C2: a DELETE of a code whose record was created for another user (the
\* caller created no record of that code) is answered 404 'Not found or not
\* authorized' and leaves the store as it was.
C2_ForeignDeleteFails ==
    [][\A r \in Slots :
         ( /\ reqs[r].pc = "idle"
           /\ reqs'[r].kind = "DELETE"
           /\ reqs'[r].userEmail \in Users
           /\ \E i \in 1..Len(Rows) :
                /\ Rows[i].short_code = reqs'[r].shortCode
                /\ \E u \in Users \ {reqs'[r].userEmail} : CreatedFor(Rows[i], u)
           /\ \A i \in 1..Len(Rows) :
                Rows[i].short_code = reqs'[r].shortCode
                    => ~CreatedFor(Rows[i], reqs'[r].userEmail) )
         => ( /\ reqs'[r].status = 404
              /\ reqs'[r].error = "Not found or not authorized"
              /\ Rows' = Rows )]_vars

\* C3: when a POST of a valid URL u by an authenticated user succeeded and its
\* record has not been deleted, getShortenedUrl of the returned shortCode
\* returns a record whose originalUrl is the normalized form of u.
C3_LookupReturnsSubmittedUrl ==
    \A r \in Slots :
        (Shortened(r) /\ Stored(Rows, reqs[r].data[1].id))
            => LET found == getShortenedUrl(Rows, reqs[r].data[1].short_code)
               IN  /\ found # <<>>
                   /\ found[1].original_url = normalizeUrl(reqs[r].url)

\* C4: the clicks of a record never decrease: every step leaves each record
\* that stays in the store with clicks equal to or larger than before.
C4_ClicksNeverDecrease ==
    [][\A i \in 1..Len(Rows) : \A j \in 1..Len(Rows') :
         (Rows[i].id = Rows'[j].id /\ Rows[i].short_code = Rows'[j].short_code)
            => Rows'[j].clicks >= Rows[i].clicks]_vars

\* C4's case: two redirects of one code have been counted
C4_Witness ==
    /\ \E i \in 1..Len(Rows) : Rows[i].clicks = 2
    /\ \E r \in Slots : Done(r) /\ reqs[r].kind \in {"PAGE", "ROUTE"} /\ reqs[r].urlData # <<>>

\* C5: when all maxAttempts candidates of one POST collided (the loop is left
\* after maxAttempts turns with isUnique false), the request is answered 500
\* 'Failed to generate unique short code' and the store is as it was.
C5_ExhaustedIs500 ==
    [][\A r \in Slots :
         ( /\ reqs[r].kind = "POST" /\ reqs[r].pc = "loop"
           /\ reqs[r].attempts = maxAttempts /\ ~reqs[r].isUnique
           /\ reqs'[r] # reqs[r] )
         => ( /\ reqs'[r].pc = "done"
              /\ reqs'[r].status = 500
              /\ reqs'[r].error = "Failed to generate unique short code"
              /\ reqs'[r].data = <<>>
              /\ Rows' = Rows )]_vars

\* C5's case: the store holds codes, and a POST was answered 500 for its
\* exhausted attempts
C5_Witness ==
    \E r \in Slots :
        /\ Done(r) /\ reqs[r].kind = "POST"
        /\ reqs[r].status = 500
        /\ reqs[r].error = "Failed to generate unique short code"
        /\ Rows # <<>>

\* C6: a POST with a syntactically valid URL and no authenticated identity is
\* answered 401 and creates no record, whatever the store holds and whatever
\* candidates are drawn.
C6_UnauthenticatedIs401 ==
    \A r \in Slots :
        (Done(r) /\ reqs[r].kind = "POST" /\ reqs[r].userEmail = NoUser
            /\ IsValidUrl(reqs[r].url))
            => (reqs[r].status = 401 /\ reqs[r].data = <<>>)

\* the rows created for userEmail, in the order of rows
RECURSIVE CreatedRows(_, _)
CreatedRows(rows, userEmail) ==
    IF rows = <<>> THEN <<>>
    ELSE IF CreatedFor(Head(rows), userEmail)
         THEN <<Head(rows)>> \o CreatedRows(Tail(rows), userEmail)
         ELSE CreatedRows(Tail(rows), userEmail)

\* C7: GET /shorten by an authenticated identity is answered 200 with only
\* records created for that identity, at most 50 of them, namely the most
\* recently created ones, ordered newest-first.
C7_ListOwnedNewestFirst ==
    [][\A r \in Slots :
         (reqs[r].pc = "idle" /\ reqs'[r].kind = "LIST" /\ reqs'[r].userEmail \in Users)
         => LET data == reqs'[r].data
                owned == CreatedRows(Rows, reqs'[r].userEmail)
            IN  /\ reqs'[r].status = 200
                /\ Len(data) <= ListLimit
                /\ Len(data) = (IF Len(owned) < ListLimit THEN Len(owned) ELSE ListLimit)
                /\ \A k \in 1..Len(data) : \E i \in 1..Len(owned) : owned[i] = data[k]
                /\ \A k, m \in 1..Len(data) : k # m => data[k].id # data[m].id
                /\ \A k \in 1..(Len(data) - 1) :
                     data[k].created_at >= data[k + 1].created_at
                /\ \A i \in 1..Len(owned) :
                     (\A k \in 1..Len(data) : data[k].id # owned[i].id)
                     => \A k \in 1..Len(data) :
                          data[k].created_at >= owned[i].created_at]_vars

\* C8: visiting an existing short code ends in a 302 redirect to the record's
\* normalized original URL with ?from=slinker appended.
C8_RedirectCarriesMarker ==
    \A r \in Slots :
        (Done(r) /\ reqs[r].kind \in {"PAGE", "ROUTE"} /\ reqs[r].urlData # <<>>)
            => /\ reqs[r].status = 302
               /\ reqs[r].location =
                      EnsureProtocol(reqs[r].urlData[1].original_url) \o MARKER

\* a URL without a protocol, as normalizeUrl sees it
NoProtocol(url) ==
    Trim(url) # <<>> /\ ~StartsWith(Trim(url), HTTP) /\ ~StartsWith(Trim(url), HTTPS)

\* C9: a URL submitted without a protocol by an authenticated user is accepted
\* and stored with originalUrl 'https://' followed by the submitted string.
C9_BareUrlAccepted ==
    \A r \in Slots :
        (Done(r) /\ reqs[r].kind = "POST" /\ reqs[r].userEmail \in Users
            /\ NoProtocol(reqs[r].url))
            => /\ reqs[r].status = 200
               /\ reqs[r].data # <<>>
               /\ reqs[r].data[1].original_url = HTTPS \o reqs[r].url

\* C10: a request for a short code that is not in the store is answered with a
\* redirect to the home location, and no error is surfaced.
C10_UnknownRedirectsHome ==
    [][\A r \in Slots :
         ( /\ reqs[r].pc = "idle"
           /\ reqs'[r].kind \in {"PAGE", "ROUTE"}
           /\ ~shortCodeExists(Rows, reqs'[r].shortCode) )
         => ( /\ reqs'[r].pc = "done"
              /\ reqs'[r].status \in 300..399
              /\ reqs'[r].location = HOME
              /\ reqs'[r].error = "" )]_vars

\* a redirect request that has found its record and has not answered yet
Found(r) == reqs[r].kind \in {"PAGE", "ROUTE"} /\ reqs[r].pc \in {"found", "resumed"}

\* the redirect to the original URL of the record that request r found
IsRedirect(req, urlData) ==
    /\ req.pc = "done"
    /\ req.status \in 300..399
    /\ req.error = ""
    /\ req.location = (IF req.kind = "PAGE"
                       THEN EnsureProtocol(urlData[1].original_url)
                       ELSE urlData[1].original_url)

\* C11: a redirect request that has found its record is answered with the
\* redirect to the record's original URL whether its click-increment succeeds,
\* fails or has not completed: from the lookup on the answer waits for nothing
\* (the step that answers is enabled), and whatever the increment does the
\* request's next step is that redirect, never an error.
C11_RedirectNeverWaits ==
    /\ [](\A r \in Slots : Found(r) => ENABLED (PageFinish(r) \/ RouteFinish(r)))
    /\ [][\A r \in Slots :
            (Found(r) /\ reqs'[r] # reqs[r]) => IsRedirect(reqs'[r], reqs[r].urlData)]_vars

\* C12: when a persistence call has thrown while a POST, GET or DELETE of
\* /api/shorten was handled, the request is answered 500, never with success.
C12_PersistenceFailureIs500 ==
    \A r \in Slots :
        (Done(r) /\ reqs[r].kind \in {"POST", "LIST", "DELETE"} /\ reqs[r].sqlFailed)
            => reqs[r].status = 500

\* the redirect requests for code c whose increment has been called and, if
\* it is an UPDATE, has run
Counted(c) ==
    Cardinality({r \in Slots :
        /\ reqs[r].kind \in {"PAGE", "ROUTE"}
        /\ reqs[r].shortCode = c /\ reqs[r].urlData # <<>>
        /\ ~reqs[r].sqlFailed
        /\ IF reqs[r].kind = "ROUTE"
           THEN reqs[r].pc \in {"resumed", "done"}
           ELSE reqs[r].pc = "done"}) - pending[c]

\* no DELETE of code c has removed a record
NoDelete(c) ==
    \A r \in Slots :
        ~(Done(r) /\ reqs[r].kind = "DELETE" /\ reqs[r].shortCode = c
            /\ reqs[r].status = 200)

IncrementsNow(c) ==
    \/ \E r \in Slots :
         /\ reqs[r].kind \in {"PAGE", "ROUTE"} /\ reqs[r].pc = "found"
         /\ reqs[r].shortCode = c
         /\ reqs'[r] # reqs[r]
    \/ pending'[c] < pending[c]

\* C15: a record that stays in the store keeps its id, originalUrl, shortCode
\* and createdAt in every step, and its clicks change only in
\* a step of the redirect path's increment for its own short code, by one:
\* creates, listings, deletes of other codes and redirects of other codes leave
\* it as it was.
C15_RecordFrame ==
    [][\A i \in 1..Len(Rows) :
         Stored(Rows', Rows[i].id)
         => LET old == Rows[i]
                new == RecordOf(Rows', old.id)
            IN  /\ new.original_url = old.original_url
                /\ new.short_code = old.short_code
                /\ new.created_at = old.created_at
                /\ new.clicks # old.clicks
                     => (new.clicks = old.clicks + 1 /\ IncrementsNow(old.short_code))]_vars

\* C15's case: a redirect of one code has been counted on its record while a
\* record of another code, after that redirect and a create, listing or delete,
\* is as it was created
C15_Witness ==
    /\ \E i, j \in 1..Len(Rows) :
         /\ Rows[i].short_code # Rows[j].short_code
         /\ Rows[i].clicks = 1 /\ Rows[j].clicks = 0
         /\ Rows[j].id \in 1..MaxEarlier /\ Rows[j] = Earlier(MaxEarlier, 1, 2)[Rows[j].id]
         /\ \E r \in Slots :
              /\ Done(r) /\ reqs[r].kind \in {"PAGE", "ROUTE"}
              /\ reqs[r].shortCode = Rows[i].short_code
    /\ \E r \in Slots :
         /\ Done(r) /\ reqs[r].kind \in {"POST", "LIST", "DELETE"}
         /\ reqs[r].status = 200

\* C16: one POST probes at most maxAttempts candidates (a request in its loop
\* has probed 1..maxAttempts of them) and leaves the loop; it takes another
\* turn only after a candidate that probed as present, one candidate a turn,
\* and after the first candidate that probed as absent it leaves the loop, and
\* the record it then inserts, and is answered with, carries exactly that
\* candidate.
C16_LoopBoundedExactCandidate ==
    /\ [](\A r \in Slots :
            reqs[r].pc = "loop" => reqs[r].attempts \in 1..maxAttempts)
    /\ [][\A r \in Slots :
            (reqs[r].pc = "loop" /\ reqs'[r] # reqs[r])
            => IF reqs[r].isUnique
               THEN \/ /\ reqs'[r].pc = "done"
                       /\ reqs'[r].status # 200
                       /\ Rows' = Rows
                    \/ /\ reqs'[r].pc = "created"
                       /\ reqs'[r].shortCode = reqs[r].shortCode
                       /\ IF reqs'[r].urlData = <<>> THEN Rows' = Rows
                          ELSE /\ reqs'[r].urlData[1].short_code = reqs[r].shortCode
                               /\ ~Stored(Rows, reqs'[r].urlData[1].id)
                               /\ Stored(Rows', reqs'[r].urlData[1].id)
                               /\ RecordOf(Rows', reqs'[r].urlData[1].id)
                                      = reqs'[r].urlData[1]
               ELSE \/ /\ reqs'[r].pc = "loop"
                       /\ reqs'[r].attempts = reqs[r].attempts + 1
                    \/ /\ reqs'[r].pc = "done"
                       /\ reqs[r].attempts = maxAttempts
                       /\ reqs'[r].status # 200
                       /\ Rows' = Rows]_vars
    /\ [][\A r \in Slots :
            (reqs[r].pc = "created" /\ reqs'[r] # reqs[r])
            => /\ reqs'[r].pc = "done"
               /\ Rows' = Rows
               /\ reqs'[r].status = 200
                    => /\ reqs'[r].data[1].short_code = reqs[r].shortCode
                       /\ reqs'[r].data[1].id = reqs[r].urlData[1].id]_vars
    /\ \A r \in 1..MaxReq : (reqs[r].pc = "loop") ~> (reqs[r].pc = "done")

\* C16's case: a POST is in its loop after maxAttempts probes, the last of
\* which was the first to answer absent, and another POST has left its loop
\* and inserted its candidate
C16_Witness ==
    /\ \E r \in Slots :
         /\ reqs[r].kind = "POST" /\ reqs[r].pc = "loop"
         /\ reqs[r].attempts = maxAttempts /\ reqs[r].isUnique
    /\ \E r \in Slots :
         /\ Shortened(r)
         /\ Stored(Rows, reqs[r].data[1].id)

====
